---- MODULE Spec2Model ----
(***************************************************************************)
(* Browser-agent session manager (internal/playwright) and the session    *)
(* acquisition of the skill handlers (skills/).                            *)
(*                                                                         *)
(* Time is counted in ticks of the wall clock.  A driver handle is         *)
(* <<kind, g>>, g the number of the successful launch that produced it.    *)
(* Every process (a request goroutine, the cleanup worker) runs one        *)
(* operation at a time; pc is its position in that operation's code.       *)
(* An RLock()..RUnlock() section of the code holds no blocking call and is *)
(* a single step, enabled only while no writer holds sessionsMux.  The     *)
(* driver calls of one launch touch no shared state and are one step.      *)
(* ev is the observable event of the last step: what an operation returned *)
(* to its caller, a skill's response, the page a driver call worked on.    *)
(*                                                                         *)
(* LaunchBrowser, CloseBrowser, GetSession and GetOrCreateDefaultSession   *)
(* follow internal/playwright.  GetOrCreateTaskSession and                 *)
(* CloseExpiredSessions, whose code is not in the tree, follow the         *)
(* specification; so does the expires-at a session is created with.       *)
(*                                                                         *)
(* The artifact store (internal/artifacts) is the registry map, the set of *)
(* paths at which a file exists, and aev, the answer of the last           *)
(* operation.  A skill handler call (fill_form, click_element,             *)
(* execute_script, navigate_to_url) is the record h: its arguments, its    *)
(* position, the driver calls it has issued in order, and what it          *)
(* returned; each driver call is a step that succeeds or fails.            *)
(***************************************************************************)
EXTENDS Integers, Sequences, FiniteSets, TLC

\* ---- bounds of the model
MaxTime == 2
MaxLaunches == 2
MaxStamps == 1

\* ---- program constants
\* SessionTimeout = 10 * time.Minute: two ticks of the model's clock
SessionTimeout == 2
DefaultSessionID == "default"

Callers == {"c1", "c2"}
Sweeper == "sweeper"
Procs == Callers \cup {Sweeper}
NoOne == "none"

\* task identifiers of request contexts (the identifier generated for a
\* context without one is some identifier too)
TaskIds == {"A", "B"}
LaunchIdSeq == <<"session_1", "session_2", "session_3", "session_4">>
LaunchIds == {LaunchIdSeq[i] : i \in 1..MaxStamps}
SessionIds == {DefaultSessionID} \cup TaskIds \cup LaunchIds

Skills == {"navigate_to_url", "click_element", "fill_form", "extract_data",
           "take_screenshot", "execute_script", "wait_for_condition", "scroll"}
NoSkill == "none"
\* a handler past its call of getOrCreateSession: which one no longer matters
SomeSkill == "skill"

VARIABLES
    sessions,   \* p.sessions: session id -> BrowserSession, NoSession when absent
    writer,     \* holder of sessionsMux.Lock(), NoOne when free
    nextGen,    \* number of the next successful launch
    stamp,      \* last time.Now().UnixNano() read by LaunchBrowser, and its reader
    now,        \* wall clock
    pc,         \* position of each process
    local,      \* local variables of each process's running operation
    toSweep,    \* identifiers the sweep collected and has still to close
    closedHist, \* identifiers closed by CloseBrowser and not inserted since (history)
    pw,         \* the playwright driver process p.pw: "running" or "stopped"
    ev,         \* the event of the last step
    artifacts,  \* ArtifactRegistry.artifacts: id -> ArtifactEntry, NoEntry when absent
    disk,       \* the paths at which a file exists
    issued,     \* the artifact ids the ADK helper has handed out
    firstReg,   \* for each id, the entry first registered under it (history)
    aev,        \* the result of the last artifact operation
    h,          \* the skill handler call under way: its arguments, position,
                \* the driver calls it has issued, and what it returned
    pv,         \* the last reading of a call's argument map: the arguments as
                \* they came, and what the handler's reading of them gave
    srv         \* the artifact server: running, httpServer (set or nil), serve (what
                \* the goroutine's ListenAndServe has come to: "none", "starting",
                \* "listening", "failed", "closed"), and the last call and its result

vars == <<sessions, writer, nextGen, stamp, now, pc, local, toSweep,
          closedHist, pw, ev, artifacts, disk, issued, firstReg, aev, h,
          pv, srv>>

\* the artifact store
artv == <<artifacts, disk, issued, firstReg, aev>>

\* the session manager
sessv == <<sessions, writer, nextGen, stamp, now, pc, local, toSweep,
           closedHist, pw, ev>>

\* what the session manager's operations leave alone besides the driver process
sub == <<artv, h, pv, srv>>

\* what the artifact store's operations leave alone
outsideArt == <<sessv, h, pv, srv>>

\* what a handler call leaves alone, its session's acquisition being a step of
\* the call that succeeds or fails
outsideH == <<sessv, artv, pv, srv>>

\* what the reading of an argument map leaves alone
outsidePv == <<sessv, artv, h, srv>>

\* what the artifact server's Start and Stop leave alone
outsideSrv == <<sessv, artv, h, pv>>

\* what the session operations leave alone
ext == <<pw, sub>>

NoSession == [ID |-> "none"]
Browser(g) == <<"browser", g>>
Context(g) == <<"context", g>>
Page(g) == <<"page", g>>
NoHandles == <<>>
Handles(s) == IF s = NoSession THEN NoHandles ELSE <<s.Browser, s.Context, s.Page>>
\* the elements of a sequence
Range(q) == {q[i] : i \in 1..Len(q)}

\* expires-at of a session created at t
InitialExpiry(t) == t + SessionTimeout

\* the BrowserSession literal of the creating operations
NewSession(id, g, t, task) ==
    [ID |-> id, Browser |-> Browser(g), Context |-> Context(g), Page |-> Page(g),
     LastUsed |-> t, ExpiresAt |-> InitialExpiry(t), TaskID |-> task]

Exists(id) == sessions[id] # NoSession

\* BrowserSession.ExpiresAt
ExpiresAt(s) == s.ExpiresAt

\* the session is in state Expired at time t
IsExpired(s, t) == ExpiresAt(s) <= t

Live(id) == Exists(id) /\ ~IsExpired(sessions[id], now)

\* session.LastUsed = time.Now()
Refresh(s, t) == [s EXCEPT !.LastUsed = t]

\* the refresh of a task session: last-used, and expires-at = last-used +
\* session timeout
RefreshExpiry(s, t) == [Refresh(s, t) EXCEPT !.ExpiresAt = t + SessionTimeout]

IdleLocal == [op |-> "none", skill |-> NoSkill, id |-> "none", g |-> 0, t0 |-> 0]

NoEv == [type |-> "none", op |-> "none", id |-> "none", kind |-> "none",
         handles |-> NoHandles, wasStored |-> FALSE, wasExpired |-> FALSE,
         retExpired |-> FALSE, afterClose |-> FALSE,
         created |-> <<>>, closed |-> <<>>, closeErrs |-> {}, skill |-> NoSkill,
         t0 |-> 0, held |-> {}, closedAll |-> {}, wasStopped |-> FALSE]

\* the event of an operation returning (*BrowserSession, error) or error: kind
\* "ok" with the session's handles, or the error.  wasExpired and afterClose
\* record what held of the identifier when it was looked up; created and closed
\* are the handles a launch had created and the Close() calls made, in order,
\* closeErrs the Close() calls that returned an error;
\* wasStored and wasExpired tell what the registry held under id at the lookup,
\* retExpired that the session returned is a stored one found expired
Result(op, id, kind, s, created, closed) ==
    [NoEv EXCEPT !.type = "ret", !.op = op, !.id = id, !.kind = kind,
        !.handles = Handles(s),
        !.wasStored = IF id \in SessionIds THEN Exists(id) ELSE FALSE,
        !.wasExpired = IF id \in SessionIds
                       THEN (IF Exists(id) THEN IsExpired(sessions[id], now) ELSE FALSE)
                       ELSE FALSE,
        !.retExpired = IF id \in SessionIds /\ s # NoSession
                       THEN s = sessions[id] /\ IsExpired(s, now)
                       ELSE FALSE,
        !.afterClose = id \in closedHist,
        !.created = created, !.closed = closed]

\* ---- the artifact store's values

\* artifact ids, as ArtifactEntry.ID
ArtifactIds == {"a1", "a2"}
\* file names a producer gives its artifact
FileNames == {"f1", "f2"}
\* filepath.Join("/tmp/artifacts/runtime", artifact.ArtifactID, filename)
RuntimePath(id, filename) == <<"runtime", id, filename>>
Paths == {RuntimePath(id, f) : id \in ArtifactIds, f \in FileNames}
NoEntry == [ID |-> "none"]
\* ArtifactEntry, of which the model keeps ID, FilePath and FileName
ArtifactEntry(id, path, filename) == [ID |-> id, FilePath |-> path, FileName |-> filename]
Entries == {ArtifactEntry(id, p, p[3]) : id \in ArtifactIds, p \in Paths}
NoAev == [op |-> "none", id |-> "none", status |-> 0, body |-> NoEntry,
          err |-> FALSE, wrote |-> FALSE, before |-> NoEntry]

InitArtifacts ==
    /\ artifacts = [id \in ArtifactIds |-> NoEntry]
    /\ disk = {}
    /\ issued = {}
    /\ firstReg = [id \in ArtifactIds |-> NoEntry]
    /\ aev = NoAev

\* ---- a handler call

\* no call under way
HIdle == [skill |-> "none", pc |-> "idle"]
\* what a handler returns: the response string and the error
NoRet == [out |-> "none", success |-> FALSE, fields |-> <<>>, error |-> "", err |-> ""]
\* return "", fmt.Errorf(msg)
ErrorOnly(msg) == [NoRet EXCEPT !.out = "", !.err = msg]

\* no argument map read yet
NoPv == [skill |-> "none"]
\* NewArtifactServer: not running, no http.Server
NewSrv == [running |-> FALSE, httpServer |-> FALSE, serve |-> "none",
           last |-> "none", ret |-> "none"]

Init ==
    /\ h = HIdle
    /\ pv = NoPv
    /\ srv = NewSrv
    /\ InitArtifacts
    /\ sessions = [id \in SessionIds |-> NoSession]
    /\ writer = NoOne
    /\ nextGen = 1
    /\ stamp = [n |-> 0, by |-> NoOne]
    /\ now = 0
    /\ pc = [p \in Procs |-> "idle"]
    /\ local = [p \in Procs |-> IdleLocal]
    /\ toSweep = {}
    /\ closedHist = {}
    /\ pw = "running"
    /\ ev = NoEv

\* ---- the driver (playwright-go) as the code uses it

\* browserType.Launch, browser.NewContext and context.NewPage can all succeed:
\* the driver process runs
CanLaunch == pw = "running" /\ nextGen <= MaxLaunches

\* a clean-up that forgets the browser when NewPage fails
LaunchFailuresLeaky(g) ==
    {[kind |-> "launch", created |-> <<>>, closed |-> <<>>],
     [kind |-> "context", created |-> <<Browser(g)>>, closed |-> <<Browser(g)>>],
     [kind |-> "page", created |-> <<Browser(g), Context(g)>>,
      closed |-> <<Context(g)>>]}

\* the outcomes of Launch, NewContext, NewPage and of the clean-up after a
\* failure: the stage that failed and the Close() calls made, in order
LaunchFailures(g) ==
    {[kind |-> "launch", created |-> <<>>, closed |-> <<>>],
     [kind |-> "context", created |-> <<Browser(g)>>, closed |-> <<Browser(g)>>],
     [kind |-> "page", created |-> <<Browser(g), Context(g)>>,
      closed |-> <<Context(g), Browser(g)>>]}

\* ---- control flow shared by the operations

\* the getOrCreateSession of each skill handler
AcquireOp(skill) ==
    IF skill \in {"fill_form", "extract_data"}
    THEN "GetOrCreateDefaultSession"
    ELSE "GetOrCreateTaskSession"

\* caller c calls session-manager operation op: directly (NoSkill), or as the
\* handler of a skill request
Entry(c, op, skill) ==
    /\ c \in Callers
    /\ pc[c] = "idle"
    /\ skill # NoSkill => AcquireOp(skill) = op

\* p goes on inside its operation
Goto(p, label, loc) ==
    /\ pc' = [pc EXCEPT ![p] = label]
    /\ local' = [local EXCEPT ![p] = loc]
    /\ ev' = NoEv

Waiting(skill) == IF skill = NoSkill THEN NoSkill ELSE SomeSkill

\* c has called operation op, which goes on at label: the event of a handler's
\* call names the skill
Enter(c, op, skill, id, label) ==
    /\ pc' = [pc EXCEPT ![c] = label]
    /\ local' = [local EXCEPT ![c] = [IdleLocal EXCEPT !.op = op, !.id = id,
                                                       !.skill = Waiting(skill)]]
    /\ ev' = IF skill = NoSkill THEN NoEv
             ELSE [NoEv EXCEPT !.type = "call", !.op = op, !.id = id, !.skill = skill]

\* the operation returns r to its caller: the cleanup worker goes on with its
\* sweep, a skill handler goes on to its driver call or fails, a direct caller ends
ReturnTo(p, skill, r) ==
    /\ ev' = [r EXCEPT !.skill = skill]
    /\ IF p = Sweeper
       THEN /\ pc' = [pc EXCEPT ![p] = "SW_close"]
            /\ local' = [local EXCEPT ![p] = [@ EXCEPT !.op = "sweep", !.id = "none"]]
       ELSE IF skill # NoSkill /\ r.kind = "ok"
       THEN /\ pc' = [pc EXCEPT ![p] = "SK_driver"]
            /\ local' = [local EXCEPT ![p] = [IdleLocal EXCEPT !.op = "skill", !.id = r.id,
                                                               !.skill = SomeSkill,
                                                               !.t0 = now]]
       ELSE /\ pc' = [pc EXCEPT ![p] = "idle"]
            /\ local' = [local EXCEPT ![p] = IdleLocal]

Return(p, r) == ReturnTo(p, local[p].skill, r)

\* ---- LaunchBrowser

\* fmt.Sprintf("session_%d", time.Now().UnixNano()): a new value, or the value
\* another goroutine read at the same instant
LaunchStamps(c) ==
    {[n |-> stamp.n + 1, by |-> c]} \cup
    (IF stamp.by \notin {NoOne, c} /\ stamp.n >= 1 THEN {stamp} ELSE {})

\* Launch, NewContext, NewPage (no lock held)
LaunchBrowserCreate(c) ==
    /\ pc[c] = "idle" /\ c \in Callers
    /\ \/ /\ CanLaunch
          /\ nextGen' = nextGen + 1
          /\ Goto(c, "LB_insert", [local[c] EXCEPT !.op = "LaunchBrowser", !.g = nextGen])
       \/ /\ \E f \in LaunchFailures(nextGen) \cup
                      {[kind |-> "engine", created |-> <<>>, closed |-> <<>>]} :
                Return(c, Result("LaunchBrowser", "none", f.kind, NoSession, f.created, f.closed))
          /\ UNCHANGED nextGen
    /\ UNCHANGED <<sessions, writer, stamp, now, toSweep, closedHist>>
    /\ UNCHANGED ext

\* sessionID from the clock; Lock, p.sessions[sessionID] = session, Unlock
LaunchBrowserInsert(c) ==
    /\ pc[c] = "LB_insert"
    /\ writer = NoOne
    /\ \E st \in LaunchStamps(c) :
       /\ st.n <= MaxStamps
       /\ LET id == LaunchIdSeq[st.n]
              s == NewSession(id, local[c].g, now, "") IN
          /\ stamp' = st
          /\ sessions' = [sessions EXCEPT ![id] = s]
          /\ closedHist' = closedHist \ {id}
          /\ Return(c, Result("LaunchBrowser", id, "ok", s, <<>>, <<>>))
    /\ UNCHANGED <<writer, nextGen, now, toSweep>>
    /\ UNCHANGED ext

\* ---- CloseBrowser (a caller's, or the sweep's for a collected identifier)

\* Lock; look the session up
CloseBrowserLock(p, id) ==
    /\ \/ p \in Callers /\ pc[p] = "idle" /\ toSweep' = toSweep
       \/ p = Sweeper /\ pc[p] = "SW_close" /\ id \in toSweep /\ toSweep' = toSweep \ {id}
    /\ writer = NoOne
    /\ IF Exists(id)
       THEN /\ writer' = p
            /\ Goto(p, "CB_close", [local[p] EXCEPT !.op = "CloseBrowser", !.id = id])
       ELSE /\ Return(p, Result("CloseBrowser", id, "notfound", NoSession, <<>>, <<>>))
            /\ UNCHANGED writer
    /\ UNCHANGED <<sessions, nextGen, stamp, now, closedHist>>
    /\ UNCHANGED ext

\* a CloseBrowser that closes the handles and keeps the entry
CloseBrowserCloseKeep(p) ==
    /\ pc[p] = "CB_close"
    /\ LET id == local[p].id
           s == sessions[id] IN
       /\ closedHist' = closedHist \cup {id}
       /\ writer' = NoOne
       /\ Return(p, Result("CloseBrowser", id, "ok", NoSession, <<>>,
                           <<s.Context, s.Browser>>))
    /\ UNCHANGED <<sessions, nextGen, stamp, now, toSweep>>
    /\ UNCHANGED ext

\* a CloseBrowser that returns the first Close() error and keeps the entry
CloseBrowserCloseStrict(p) ==
    /\ pc[p] = "CB_close"
    /\ LET id == local[p].id
           s == sessions[id] IN
       /\ writer' = NoOne
       /\ \E errs \in SUBSET {s.Context, s.Browser} :
            IF errs = {}
            THEN /\ sessions' = [sessions EXCEPT ![id] = NoSession]
                 /\ closedHist' = closedHist \cup {id}
                 /\ Return(p, Result("CloseBrowser", id, "ok", NoSession, <<>>,
                                     <<s.Context, s.Browser>>))
            ELSE /\ Return(p, [Result("CloseBrowser", id, "close", NoSession, <<>>,
                                      <<s.Context>>) EXCEPT !.closeErrs = errs])
                 /\ UNCHANGED <<sessions, closedHist>>
    /\ UNCHANGED <<nextGen, stamp, now, toSweep>>
    /\ UNCHANGED ext

\* Context.Close(), Browser.Close(), each of which may fail (the error is
\* logged); delete; return nil; Unlock (deferred)
CloseBrowserClose(p) ==
    /\ pc[p] = "CB_close"
    /\ LET id == local[p].id
           s == sessions[id] IN
       /\ sessions' = [sessions EXCEPT ![id] = NoSession]
       /\ closedHist' = closedHist \cup {id}
       /\ writer' = NoOne
       /\ \E errs \in SUBSET {s.Context, s.Browser} :
            Return(p, [Result("CloseBrowser", id, "ok", NoSession, <<>>,
                              <<s.Context, s.Browser>>) EXCEPT !.closeErrs = errs])
    /\ UNCHANGED <<nextGen, stamp, now, toSweep>>
    /\ UNCHANGED ext

\* ---- GetSession

GetSessionResult(id) ==
    IF ~Exists(id) THEN Result("GetSession", id, "notfound", NoSession, <<>>, <<>>)
    ELSE Result("GetSession", id, "ok", sessions[id], <<>>, <<>>)

GetSession(c, id) ==
    /\ pc[c] = "idle" /\ c \in Callers
    /\ writer = NoOne
    /\ LET r == GetSessionResult(id) IN
       /\ sessions' = IF r.kind = "ok"
                      THEN [sessions EXCEPT ![id] = Refresh(@, now)]
                      ELSE sessions
       /\ Return(c, r)
    /\ UNCHANGED <<writer, nextGen, stamp, now, toSweep, closedHist>>
    /\ UNCHANGED ext

\* GetSession as the goroutine runs it.  Several goroutines hold RLock at once,
\* and session.LastUsed = time.Now() is a read of the clock and then a store
\* made under that reader lock: between the two the goroutine may be suspended
\* while another reader stores.

\* RLock; look the session up; time.Now()
GetSessionNow(c, id) ==
    /\ pc[c] = "idle" /\ c \in Callers
    /\ writer = NoOne
    /\ IF Exists(id)
       THEN Goto(c, "GS_store", [IdleLocal EXCEPT !.op = "GetSession", !.id = id, !.t0 = now])
       ELSE Return(c, GetSessionResult(id))
    /\ UNCHANGED <<sessions, writer, nextGen, stamp, now, toSweep, closedHist>>
    /\ UNCHANGED ext

\* session.LastUsed = the value read; RUnlock (deferred); return
GetSessionStore(c) ==
    /\ pc[c] = "GS_store"
    /\ LET id == local[c].id IN
       /\ sessions' = [sessions EXCEPT ![id] = Refresh(@, local[c].t0)]
       /\ Return(c, Result("GetSession", id, "ok", sessions[id], <<>>, <<>>)
                    @@ [prevUsed |-> sessions[id].LastUsed])
    /\ UNCHANGED <<writer, nextGen, stamp, now, toSweep, closedHist>>
    /\ UNCHANGED ext

\* no goroutine holds the reader lock: Lock() can be granted
NoReaders == \A c \in Callers : pc[c] # "GS_store"

\* ---- GetOrCreateDefaultSession

\* RLock; reuse the existing default session
DefaultFast(c, skill) ==
    /\ Entry(c, "GetOrCreateDefaultSession", skill)
    /\ writer = NoOne
    /\ IF Exists(DefaultSessionID)
       THEN /\ sessions' = [sessions EXCEPT ![DefaultSessionID] = Refresh(@, now)]
            /\ ReturnTo(c, skill, Result("GetOrCreateDefaultSession", DefaultSessionID, "ok",
                                         sessions[DefaultSessionID], <<>>, <<>>))
       ELSE /\ Enter(c, "GetOrCreateDefaultSession", skill, DefaultSessionID, "GD_lock")
            /\ UNCHANGED sessions
    /\ UNCHANGED <<writer, nextGen, stamp, now, toSweep, closedHist>>
    /\ UNCHANGED ext

\* a slow path without the second check
DefaultLockNoCheck(c) ==
    /\ pc[c] = "GD_lock"
    /\ writer = NoOne
    /\ writer' = c
    /\ Goto(c, "GD_create", local[c])
    /\ UNCHANGED <<sessions, nextGen, stamp, now, toSweep, closedHist>>
    /\ UNCHANGED ext

\* Lock; check again
DefaultLock(c) ==
    /\ pc[c] = "GD_lock"
    /\ writer = NoOne
    /\ IF Exists(DefaultSessionID)
       THEN /\ sessions' = [sessions EXCEPT ![DefaultSessionID] = Refresh(@, now)]
            /\ Return(c, Result("GetOrCreateDefaultSession", DefaultSessionID, "ok",
                                sessions[DefaultSessionID], <<>>, <<>>))
            /\ UNCHANGED writer
       ELSE /\ writer' = c
            /\ Goto(c, "GD_create", local[c])
            /\ UNCHANGED sessions
    /\ UNCHANGED <<nextGen, stamp, now, toSweep, closedHist>>
    /\ UNCHANGED ext

\* Launch, NewContext, NewPage under the lock; insert; Unlock (deferred)
DefaultCreate(c) ==
    /\ pc[c] = "GD_create"
    /\ writer' = NoOne
    /\ \/ /\ CanLaunch
          /\ nextGen' = nextGen + 1
          /\ LET s == NewSession(DefaultSessionID, nextGen, now, "") IN
             /\ sessions' = [sessions EXCEPT ![DefaultSessionID] = s]
             /\ closedHist' = closedHist \ {DefaultSessionID}
             /\ Return(c, Result("GetOrCreateDefaultSession", DefaultSessionID, "ok",
                                 s, <<>>, <<>>))
       \/ /\ \E f \in LaunchFailures(nextGen) :
                Return(c, Result("GetOrCreateDefaultSession", DefaultSessionID, f.kind,
                                 NoSession, f.created, f.closed))
          /\ UNCHANGED <<nextGen, sessions, closedHist>>
    /\ UNCHANGED <<stamp, now, toSweep>>
    /\ UNCHANGED ext

\* ---- GetOrCreateTaskSession

\* look the task's session up; a live one is refreshed and returned
TaskLookup(c, task, skill) ==
    /\ Entry(c, "GetOrCreateTaskSession", skill)
    /\ writer = NoOne
    /\ IF Live(task)
       THEN /\ sessions' = [sessions EXCEPT ![task] = RefreshExpiry(@, now)]
            /\ ReturnTo(c, skill, Result("GetOrCreateTaskSession", task, "ok",
                                         sessions[task], <<>>, <<>>))
       ELSE /\ Enter(c, "GetOrCreateTaskSession", skill, task, "GT_create")
            /\ UNCHANGED sessions
    /\ UNCHANGED <<writer, nextGen, stamp, now, toSweep, closedHist>>
    /\ UNCHANGED ext

\* Launch, NewContext, NewPage with no lock held
TaskCreate(c) ==
    /\ pc[c] = "GT_create"
    /\ \/ /\ CanLaunch
          /\ nextGen' = nextGen + 1
          /\ Goto(c, "GT_insert", [local[c] EXCEPT !.g = nextGen])
       \/ /\ \E f \in LaunchFailures(nextGen) :
                Return(c, Result("GetOrCreateTaskSession", local[c].id, f.kind,
                                 NoSession, f.created, f.closed))
          /\ UNCHANGED nextGen
    /\ UNCHANGED <<sessions, writer, stamp, now, toSweep, closedHist>>
    /\ UNCHANGED ext

\* an insertion that does not look for a racing caller's session
TaskInsertNoCheck(c) ==
    /\ pc[c] = "GT_insert"
    /\ writer = NoOne
    /\ LET id == local[c].id
           s == NewSession(id, local[c].g, now, id) IN
       /\ sessions' = [sessions EXCEPT ![id] = s]
       /\ closedHist' = closedHist \ {id}
       /\ Return(c, Result("GetOrCreateTaskSession", id, "ok", s, <<>>, <<>>))
    /\ UNCHANGED <<writer, nextGen, stamp, now, toSweep>>
    /\ UNCHANGED ext

\* under the writer lock: a racing caller's live session wins and the handles
\* just created are closed; otherwise the new session is inserted and an
\* expired entry it replaces is destroyed
TaskInsert(c) ==
    /\ pc[c] = "GT_insert"
    /\ writer = NoOne
    /\ LET id == local[c].id
           g == local[c].g
           s == NewSession(id, g, now, id) IN
       IF Live(id)
       THEN /\ sessions' = [sessions EXCEPT ![id] = RefreshExpiry(@, now)]
            /\ Return(c, Result("GetOrCreateTaskSession", id, "ok", sessions[id],
                                <<>>, <<Context(g), Browser(g)>>))
            /\ UNCHANGED closedHist
       ELSE /\ sessions' = [sessions EXCEPT ![id] = s]
            /\ closedHist' = closedHist \ {id}
            /\ Return(c, Result("GetOrCreateTaskSession", id, "ok", s, <<>>,
                                IF Exists(id)
                                THEN <<sessions[id].Context, sessions[id].Browser>>
                                ELSE <<>>))
    /\ UNCHANGED <<writer, nextGen, stamp, now, toSweep>>
    /\ UNCHANGED ext

\* ---- CloseExpiredSessions, run by sessionCleanupWorker on every tick of its ticker

\* under the lock: collect the identifiers of the expired sessions
SweepCollect ==
    /\ pc[Sweeper] = "idle"
    /\ writer = NoOne
    /\ toSweep' = {id \in SessionIds : Exists(id) /\ IsExpired(sessions[id], now)}
    /\ Goto(Sweeper, "SW_close", [IdleLocal EXCEPT !.op = "sweep", !.t0 = now])
    /\ UNCHANGED <<sessions, writer, nextGen, stamp, now, closedHist>>
    /\ UNCHANGED ext

\* sessionCleanupWorker, case <-ticker.C: the worker begins a sweep; the event
\* records whether the driver had been stopped by a Shutdown that returned.
\* The case <-p.cleanupStop is never taken: Shutdown sends nothing on it
WorkerTick ==
    /\ pc[Sweeper] = "idle"
    /\ writer = NoOne
    /\ toSweep' = {id \in SessionIds : Exists(id) /\ IsExpired(sessions[id], now)}
    /\ pc' = [pc EXCEPT ![Sweeper] = "SW_close"]
    /\ local' = [local EXCEPT ![Sweeper] = [IdleLocal EXCEPT !.op = "sweep", !.t0 = now]]
    /\ ev' = [NoEv EXCEPT !.type = "tick", !.op = "CloseExpiredSessions",
                          !.t0 = now, !.wasStopped = pw = "stopped"]
    /\ UNCHANGED <<sessions, writer, nextGen, stamp, now, closedHist>>
    /\ UNCHANGED ext

\* every collected identifier has been closed: the sweep returns
SweepDone ==
    /\ pc[Sweeper] = "SW_close"
    /\ toSweep = {}
    /\ pc' = [pc EXCEPT ![Sweeper] = "idle"]
    /\ local' = [local EXCEPT ![Sweeper] = IdleLocal]
    /\ ev' = [NoEv EXCEPT !.type = "swept", !.op = "CloseExpiredSessions",
                          !.kind = "ok", !.t0 = local[Sweeper].t0]
    /\ UNCHANGED <<sessions, writer, nextGen, stamp, now, toSweep, closedHist>>
    /\ UNCHANGED ext

\* ---- the skill handlers

\* a handler rejects its arguments before it asks for a session
SkillReject(c, skill) ==
    /\ pc[c] = "idle" /\ c \in Callers
    /\ ev' = [NoEv EXCEPT !.type = "resp", !.skill = skill, !.kind = "invalid"]
    /\ UNCHANGED <<sessions, writer, nextGen, stamp, now, pc, local, toSweep, closedHist>>
    /\ UNCHANGED ext

\* an adapter that always drives the shared session
DriverTargetShared(id) == DefaultSessionID

\* the session a driver-adapter operation works on: p.GetSession(sessionID)
DriverTarget(id) == id

\* s.playwright.<Operation>(ctx, session.ID, ...): the adapter looks the
\* session up by its identifier and drives its page
SkillDriver(c) ==
    /\ pc[c] = "SK_driver"
    /\ writer = NoOne
    /\ LET id == DriverTarget(local[c].id)
           r == GetSessionResult(id) IN
       /\ sessions' = IF r.kind = "ok"
                      THEN [sessions EXCEPT ![id] = Refresh(@, now)]
                      ELSE sessions
       /\ \E ok \in BOOLEAN :
            ev' = [r EXCEPT !.type = "resp", !.op = "driver", !.id = local[c].id,
                            !.skill = local[c].skill,
                            !.kind = IF r.kind # "ok" THEN r.kind
                                     ELSE IF ok THEN "ok" ELSE "driver"]
    /\ pc' = [pc EXCEPT ![c] = "idle"]
    /\ local' = [local EXCEPT ![c] = IdleLocal]
    /\ UNCHANGED <<writer, nextGen, stamp, now, toSweep, closedHist>>
    /\ UNCHANGED ext

\* the adapter operation in two steps: the session is looked up and the page
\* operation begins ...
SkillDriverStart(c) ==
    /\ pc[c] = "SK_driver"
    /\ writer = NoOne
    /\ LET id == DriverTarget(local[c].id)
           r == GetSessionResult(id) IN
       IF r.kind = "ok"
       THEN /\ sessions' = [sessions EXCEPT ![id] = Refresh(@, now)]
            /\ Goto(c, "SK_inflight", [local[c] EXCEPT !.g = sessions[id].Page[2]])
       ELSE /\ sessions' = sessions
            /\ ev' = [r EXCEPT !.type = "resp", !.op = "driver", !.id = local[c].id,
                               !.skill = local[c].skill]
            /\ pc' = [pc EXCEPT ![c] = "idle"]
            /\ local' = [local EXCEPT ![c] = IdleLocal]
    /\ UNCHANGED <<writer, nextGen, stamp, now, toSweep, closedHist>>
    /\ UNCHANGED ext

\* ... and the page operation returns
SkillDriverEnd(c) ==
    /\ pc[c] = "SK_inflight"
    /\ \E ok \in BOOLEAN :
         ev' = [NoEv EXCEPT !.type = "resp", !.op = "driver", !.id = local[c].id,
                           !.skill = local[c].skill,
                           !.handles = <<Browser(local[c].g), Context(local[c].g),
                                         Page(local[c].g)>>,
                           !.kind = IF ok THEN "ok" ELSE "driver"]
    /\ pc' = [pc EXCEPT ![c] = "idle"]
    /\ local' = [local EXCEPT ![c] = IdleLocal]
    /\ UNCHANGED <<sessions, writer, nextGen, stamp, now, toSweep, closedHist>>
    /\ UNCHANGED ext

\* a skill call, from the session's acquisition to the end of its driver
\* operation, takes less than the session timeout
CallsInTime(t) ==
    \A c \in Callers :
        pc[c] \in {"SK_driver", "SK_inflight"} => t - local[c].t0 < SessionTimeout

\* ---- Shutdown

\* Lock
ShutdownLock(c) ==
    /\ pc[c] = "idle" /\ c \in Callers
    /\ writer = NoOne
    /\ writer' = c
    /\ Goto(c, "SD_close", [IdleLocal EXCEPT !.op = "Shutdown"])
    /\ UNCHANGED <<sessions, nextGen, stamp, now, toSweep, closedHist, pw>>
    /\ UNCHANGED sub

\* the handles the loop over p.sessions calls Close() on
ShutdownClosed == UNION {{sessions[id].Context, sessions[id].Browser} :
                           id \in {i \in SessionIds : Exists(i)}}

\* for every session: Context.Close(), Browser.Close() (errors logged);
\* p.sessions = make(map); Unlock
ShutdownCloseAll(c) ==
    /\ pc[c] = "SD_close"
    /\ sessions' = [id \in SessionIds |-> NoSession]
    /\ writer' = NoOne
    /\ pc' = [pc EXCEPT ![c] = "SD_stop"]
    /\ local' = local
    /\ ev' = [NoEv EXCEPT !.type = "closedall", !.op = "Shutdown",
                          !.held = UNION {Range(Handles(sessions[id])) : id \in SessionIds},
                          !.closedAll = ShutdownClosed]
    /\ UNCHANGED <<nextGen, stamp, now, toSweep, closedHist, pw>>
    /\ UNCHANGED sub

\* p.pw.Stop(), whose error is returned; p.pw is kept, so a later Shutdown
\* calls Stop() on the stopped driver again
ShutdownStop(c) ==
    /\ pc[c] = "SD_stop"
    /\ \E ok \in BOOLEAN :
         /\ pw' = IF ok THEN "stopped" ELSE pw
         /\ ev' = [NoEv EXCEPT !.type = "ret", !.op = "Shutdown",
                               !.kind = IF ok THEN "ok" ELSE "stop",
                               !.wasStopped = pw = "stopped"]
    /\ pc' = [pc EXCEPT ![c] = "idle"]
    /\ local' = [local EXCEPT ![c] = IdleLocal]
    /\ UNCHANGED <<sessions, writer, nextGen, stamp, now, toSweep, closedHist>>
    /\ UNCHANGED sub

\* the wall clock advances
Tick ==
    /\ now < MaxTime
    /\ now' = now + 1
    /\ stamp' = [stamp EXCEPT !.by = NoOne]
    /\ ev' = NoEv
    /\ UNCHANGED <<sessions, writer, nextGen, pc, local, toSweep, closedHist>>
    /\ UNCHANGED ext

\* the clock advances while skill calls run
TickInCall == CallsInTime(now + 1) /\ Tick

\* ---- the artifact registry and its HTTP handlers

StatusOK == 200
StatusBadRequest == 400
StatusNotFound == 404

\* r.artifacts[entry.ID] = entry
RegisterArtifactMap(entry) == [artifacts EXCEPT ![entry.ID] = entry]

\* entry, exists := r.artifacts[id]
GetArtifact(id) == IF id \in ArtifactIds THEN artifacts[id] ELSE NoEntry
Registered(id) == GetArtifact(id) # NoEntry

FirstKept(entry) ==
    IF firstReg[entry.ID] = NoEntry THEN [firstReg EXCEPT ![entry.ID] = entry]
    ELSE firstReg

\* RegisterArtifact, called with an entry of the caller's making
RegisterArtifact(entry) ==
    /\ artifacts' = RegisterArtifactMap(entry)
    /\ firstReg' = FirstKept(entry)
    /\ aev' = [NoAev EXCEPT !.op = "RegisterArtifact", !.id = entry.ID,
                            !.before = artifacts[entry.ID]]
    /\ UNCHANGED <<disk, issued>>
    /\ UNCHANGED outsideArt

\* the helper: the ADK artifact and its id, MkdirAll, WriteFile, RegisterArtifact;
\* either failure is logged and the artifact returned with a nil error
CreateFileArtifactFromBytesWithRegistry(id, filename) ==
    /\ id \notin issued
    /\ issued' = issued \cup {id}
    /\ \E mkdirOk, writeOk \in BOOLEAN :
         LET path == RuntimePath(id, filename)
             entry == ArtifactEntry(id, path, filename)
             wrote == mkdirOk /\ writeOk
         IN /\ disk' = IF wrote THEN disk \cup {path} ELSE disk
            /\ artifacts' = IF wrote THEN RegisterArtifactMap(entry) ELSE artifacts
            /\ firstReg' = IF wrote THEN FirstKept(entry) ELSE firstReg
            /\ aev' = [NoAev EXCEPT !.op = "CreateFileArtifactFromBytesWithRegistry",
                                    !.id = id, !.err = FALSE, !.wrote = wrote,
                                    !.before = artifacts[id]]
    /\ UNCHANGED outsideArt

\* getArtifact without its os.Stat
getArtifactStatusNoStat(id) ==
    IF id = "" THEN StatusBadRequest
    ELSE IF ~Registered(id) THEN StatusNotFound
    ELSE StatusOK

\* the status getArtifact answers with: os.Stat reports IsNotExist for a path
\* without a file, and c.File serves the file otherwise
getArtifactStatus(id) ==
    IF id = "" THEN StatusBadRequest
    ELSE IF ~Registered(id) THEN StatusNotFound
    ELSE IF GetArtifact(id).FilePath \notin disk THEN StatusNotFound
    ELSE StatusOK

\* ids a request names; the route /artifacts/:id matches no empty segment
RequestIds == ArtifactIds \cup {"unknown"}

\* GET /artifacts/:id
getArtifact(id) ==
    /\ aev' = [NoAev EXCEPT !.op = "getArtifact", !.id = id,
                            !.status = getArtifactStatus(id),
                            !.body = IF getArtifactStatus(id) = StatusOK
                                     THEN GetArtifact(id) ELSE NoEntry,
                            !.before = GetArtifact(id)]
    /\ UNCHANGED <<artifacts, disk, issued, firstReg>>
    /\ UNCHANGED outsideArt

\* GET /artifacts/:id/metadata
getArtifactMetadata(id) ==
    /\ aev' = [NoAev EXCEPT !.op = "getArtifactMetadata", !.id = id,
                            !.status = IF id = "" THEN StatusBadRequest
                                       ELSE IF ~Registered(id) THEN StatusNotFound
                                       ELSE StatusOK,
                            !.body = GetArtifact(id),
                            !.before = GetArtifact(id)]
    /\ UNCHANGED <<artifacts, disk, issued, firstReg>>
    /\ UNCHANGED outsideArt

\* a file is removed from outside the process
RemoveFile(path) ==
    /\ path \in disk
    /\ disk' = disk \ {path}
    /\ aev' = [NoAev EXCEPT !.op = "RemoveFile"]
    /\ UNCHANGED <<artifacts, issued, firstReg>>
    /\ UNCHANGED outsideArt

\* ---- fill_form

\* a fields argument that is absent, and one that is an array
Missing == [present |-> FALSE, list |-> <<>>]
Array(list) == [present |-> TRUE, list |-> list]
\* selectors of the fields of a call; "" is the one validation refuses
Selectors == {"#a", "#b", ""}
MaxFields == 3
FieldLists == UNION {[1..n -> Selectors] : n \in 0..MaxFields}

\* the first field validation refuses, 0 when there is none
FirstInvalid(fields) ==
    IF \E i \in 1..Len(fields) : fields[i] = ""
    THEN CHOOSE i \in 1..Len(fields) :
             fields[i] = "" /\ \A j \in 1..(i - 1) : fields[j] # ""
    ELSE 0

\* the error the handler's validation returns, "" when the arguments pass
FillFormInvalid(arg, submit, submitSelector) ==
    IF ~arg.present THEN "fields parameter is required"
    ELSE IF Len(arg.list) = 0 THEN "at least one field is required"
    ELSE IF FirstInvalid(arg.list) # 0 THEN "selector is required and must be a non-empty string"
    ELSE IF submit /\ submitSelector = "" THEN "submit_selector is required when submit is true"
    ELSE ""

\* FillFormHandler up to its call of getOrCreateSession
FillFormCall(arg, submit, submitSelector) ==
    /\ h.pc = "idle"
    /\ LET msg == FillFormInvalid(arg, submit, submitSelector)
           call == [skill |-> "fill_form", pc |-> "session", fields |-> arg.list,
                    submit |-> submit,
                    submitSelector |-> IF submit THEN submitSelector ELSE "",
                    i |-> 1, fieldResults |-> <<>>, calls |-> <<>>, ret |-> NoRet]
       IN h' = IF msg # ""
               THEN [call EXCEPT !.pc = "done", !.ret = ErrorOnly(msg)]
               ELSE call
    /\ UNCHANGED outsideH

\* where the loop over fields goes after a fill
AfterFillContinue(ok, last, submit) ==
    IF ~last THEN "fill" ELSE IF submit THEN "submit" ELSE "done"

AfterFill(ok, last, submit) ==
    IF ~ok THEN "done"
    ELSE IF ~last THEN "fill"
    ELSE IF submit THEN "submit" ELSE "done"

\* session, err := s.getOrCreateSession(ctx)
FillFormSession ==
    /\ h.skill = "fill_form" /\ h.pc = "session"
    /\ \E ok \in BOOLEAN :
         h' = IF ok THEN [h EXCEPT !.pc = "fill"]
              ELSE [h EXCEPT !.pc = "done",
                             !.ret = ErrorOnly("failed to get browser session")]
    /\ UNCHANGED outsideH

\* one turn of the loop: fillSingleField, the field's result, and on an error
\* the error response; after the last field without submit, the response
FillFormField ==
    /\ h.skill = "fill_form" /\ h.pc = "fill"
    /\ \E ok \in BOOLEAN :
         LET i == h.i
             last == i = Len(h.fields)
             result == [field_index |-> i, selector |-> h.fields[i], success |-> ok]
             results == Append(h.fieldResults, result)
             next == AfterFill(ok, last, h.submit)
         IN h' = [h EXCEPT
                    !.calls = Append(@, [op |-> "FillForm", index |-> i,
                                         selector |-> h.fields[i], ok |-> ok]),
                    !.fieldResults = results,
                    !.i = i + 1,
                    !.pc = next,
                    !.ret = IF ~ok
                            THEN [out |-> "response", success |-> FALSE,
                                  fields |-> results, error |-> "Failed to fill field",
                                  err |-> "failed to fill field"]
                            ELSE IF next = "done"
                            THEN [out |-> "response", success |-> TRUE,
                                  fields |-> results, error |-> "", err |-> ""]
                            ELSE @]
    /\ UNCHANGED outsideH

\* s.playwright.ClickElement(ctx, session.ID, submitSelector, timeout 30000)
FillFormSubmit ==
    /\ h.skill = "fill_form" /\ h.pc = "submit"
    /\ \E ok \in BOOLEAN :
         h' = [h EXCEPT
                 !.calls = Append(@, [op |-> "ClickElement", index |-> 0,
                                      selector |-> h.submitSelector, ok |-> ok]),
                 !.pc = "done",
                 !.ret = IF ok
                         THEN [out |-> "response", success |-> TRUE,
                               fields |-> h.fieldResults, error |-> "", err |-> ""]
                         ELSE ErrorOnly("failed to submit form")]
    /\ UNCHANGED outsideH

\* the handler has returned; the next call may come
HandlerDone ==
    /\ h.pc = "done"
    /\ h' = HIdle
    /\ UNCHANGED outsideH

\* ---- click_element

\* timeout := 30000
DefaultClickTimeout == 30000
\* the timeout argument: absent (0 here) or a positive number of milliseconds
TimeoutArgs == {0, 5000}
ClickTimeout(arg) == IF arg > 0 THEN arg ELSE DefaultClickTimeout

\* the selector argument: empty, css, xpath with its prefix, quoted text
ClickSelectors == {"", "#a", "xpath=//b", "'Go'"}
\* normalizeSelector on these
normalizeSelector(selector) ==
    CASE selector = "xpath=//b" -> <<"//b", "xpath">>
      [] selector = "'Go'" -> <<"text=Go", "text">>
      [] OTHER -> <<selector, "css">>

\* the button argument: absent, valid, not valid
Buttons == {"", "left", "up"}
isValidButton(b) == b \in {"left", "right", "middle"}

ClickInvalid(selector, button) ==
    IF selector = "" THEN "selector parameter is required and must be a non-empty string"
    ELSE IF button # "" /\ ~isValidButton(button) THEN "invalid button value"
    ELSE ""

\* ClickElementHandler up to its call of GetOrCreateTaskSession
ClickCall(selector, button, clickCountArg, force, timeoutArg) ==
    /\ h.pc = "idle"
    /\ LET msg == ClickInvalid(selector, button)
           call == [skill |-> "click_element", pc |-> "session", selector |-> selector,
                    button |-> IF button = "" THEN "left" ELSE button,
                    clickCount |-> IF clickCountArg > 0 THEN clickCountArg ELSE 1,
                    force |-> force, timeout |-> ClickTimeout(timeoutArg),
                    calls |-> <<>>, ret |-> NoRet]
       IN h' = IF msg # ""
               THEN [call EXCEPT !.pc = "done", !.ret = ErrorOnly(msg)]
               ELSE call
    /\ UNCHANGED outsideH

\* session, err := s.playwright.GetOrCreateTaskSession(ctx)
ClickSession ==
    /\ h.skill = "click_element" /\ h.pc = "session"
    /\ \E ok \in BOOLEAN :
         h' = IF ok THEN [h EXCEPT !.pc = "wait"]
              ELSE [h EXCEPT !.pc = "done",
                             !.ret = ErrorOnly("failed to get browser session")]
    /\ UNCHANGED outsideH

\* the handler clicking whatever the wait reported
AfterWaitClick(visible, force) == "click"

\* the handler after waitForElementActionable: nil leads to the click; an
\* invisible element leads to checkElementInIframes, whose every return is an error
AfterWait(visible, force) == IF visible THEN "click" ELSE "done"

\* waitForElementActionable: GetSession, WaitForCondition(selector, "visible",
\* timeout), and on its error checkElementInIframes with Locator("iframe").Count()
ClickWait ==
    /\ h.skill = "click_element" /\ h.pc = "wait"
    /\ \E found, visible \in BOOLEAN :
         LET wait == [op |-> "WaitForCondition", selector |-> normalizeSelector(h.selector)[1],
                      state |-> "visible", timeout |-> h.timeout, ok |-> visible]
             count == [op |-> "Count", selector |-> "iframe", state |-> "",
                       timeout |-> 0, ok |-> FALSE]
         IN h' = IF ~found
                 THEN [h EXCEPT !.pc = "done", !.ret = ErrorOnly("element not actionable")]
                 ELSE [h EXCEPT
                         !.calls = IF visible THEN Append(@, wait)
                                   ELSE Append(Append(@, wait), count),
                         !.pc = AfterWait(visible, h.force),
                         !.ret = IF visible THEN @
                                 ELSE ErrorOnly("element not actionable")]
    /\ UNCHANGED outsideH

\* s.playwright.ClickElement(ctx, session.ID, normalizedSelector, options)
ClickClick ==
    /\ h.skill = "click_element" /\ h.pc = "click"
    /\ \E ok \in BOOLEAN :
         h' = [h EXCEPT
                 !.calls = Append(@, [op |-> "ClickElement",
                                      selector |-> normalizeSelector(h.selector)[1],
                                      state |-> "", timeout |-> h.timeout, ok |-> ok]),
                 !.pc = "done",
                 !.ret = IF ok
                         THEN [NoRet EXCEPT !.out = "response", !.success = TRUE]
                         ELSE ErrorOnly("click failed")]
    /\ UNCHANGED outsideH

\* ---- execute_script

\* A script text is a sequence of tokens <<word, case>>: the word in lower-case
\* spelling and the letter case it is written in.
Lower == "l"
Mixed == "m"
Upper == "u"
Cases == {Lower, Mixed, Upper}
W(w) == <<w, Lower>>
Space == W(" ")
Punct == {"(", ".", "=", "'", "\"", " "}

\* strings.ToLower
ToLower(text) == [i \in 1..Len(text) |-> <<text[i][1], Lower>>]

\* elements of a pattern: a literal as the source spells it, a class, \s*
Lit(w) == [ws |-> FALSE, set |-> {W(w)}]
CamelLit(w) == [ws |-> FALSE, set |-> {<<w, Mixed>>}]
QuoteEl == [ws |-> FALSE, set |-> {W("'"), W("\"")}]
WSs == [ws |-> TRUE, set |-> {}]
Require(mod) == <<Lit("require"), WSs, Lit("("), WSs, QuoteEl, Lit(mod), QuoteEl>>
CallOf(name) == <<Lit(name), WSs, Lit("(")>>

dangerousPatterns == <<
    Require("fs"), Require("path"), Require("os"),
    Require("http"), Require("https"), Require("net"),
    Require("child_process"), CallOf("exec"), CallOf("spawn"),
    CallOf("eval"), CallOf("function"), CallOf("settimeout"), CallOf("setinterval"),
    <<Lit("global"), Lit(".")>>, <<Lit("process"), Lit(".")>>,
    <<Lit("__dirname")>>, <<Lit("__filename")>>,
    <<CamelLit("localstorage"), Lit("."), Lit("clear")>>,
    <<CamelLit("sessionstorage"), Lit("."), Lit("clear")>>,
    <<Lit("document"), Lit("."), Lit("cookie"), WSs, Lit("=")>>,
    <<Lit("window"), Lit("."), Lit("location"), WSs, Lit("=")>> >>

\* the pattern matches the text from position i on (the pattern from element j on)
RECURSIVE MatchAt(_, _, _, _)
MatchAt(pat, text, i, j) ==
    IF j > Len(pat) THEN TRUE
    ELSE IF pat[j].ws
    THEN \/ MatchAt(pat, text, i, j + 1)
         \/ i <= Len(text) /\ text[i] = Space /\ MatchAt(pat, text, i + 1, j)
    ELSE i <= Len(text) /\ text[i] \in pat[j].set /\ MatchAt(pat, text, i + 1, j + 1)

\* regexp.MatchString: the pattern matches somewhere in the text, letter case counting
MatchString(pat, text) == \E i \in 1..(Len(text) + 1) : MatchAt(pat, text, i, 1)

MaxScriptLength == 50000

\* validateScriptSecurity: "" for nil
validateScriptSecurity(script) ==
    LET scriptLower == ToLower(script.text)
    IN IF \E k \in 1..Len(dangerousPatterns) : MatchString(dangerousPatterns[k], scriptLower)
       THEN "script contains potentially dangerous pattern"
       ELSE IF script.len > MaxScriptLength THEN "script too large"
       ELSE ""

\* the texts a pattern matches in full
RECURSIVE Instances(_)
Instances(pat) ==
    IF pat = <<>> THEN {<<>>}
    ELSE LET heads == IF pat[1].ws THEN {<<>>, <<Space>>}
                      ELSE {<<t>> : t \in pat[1].set}
         IN {hd \o tl : hd \in heads, tl \in Instances(Tail(pat))}

\* a text with its words written in one letter case
Casing(text, c) ==
    [i \in 1..Len(text) |-> IF text[i][1] \in Punct THEN text[i] ELSE <<text[i][1], c>>]

\* the script argument: a harmless text or one use of a construct of the list,
\* in any letter case, alone or after a harmless statement, of some length
SafeText == <<W("return"), Space, W("document"), W("."), W("title")>>
ScriptLengths == {100, MaxScriptLength, MaxScriptLength + 1}
ScriptTexts ==
    {SafeText} \cup
    {prefix \o Casing(inst, c) :
        prefix \in {<<>>, <<W("x"), W("="), W("1"), Space>>}, c \in Cases,
        inst \in UNION {Instances(dangerousPatterns[k]) : k \in 1..Len(dangerousPatterns)}}
Scripts == {[text |-> t, len |-> n] : t \in ScriptTexts \cup {<<>>}, n \in ScriptLengths}
           \ {[text |-> <<>>, len |-> n] : n \in ScriptLengths \ {100}}

\* ExecuteScriptHandler up to its call of getOrCreateSession
ExecuteScriptCall(script) ==
    /\ h.pc = "idle"
    /\ LET msg == IF script.text = <<>>
                  THEN "script parameter is required and must be a non-empty string"
                  ELSE IF validateScriptSecurity(script) # ""
                  THEN "script security validation failed"
                  ELSE ""
           call == [skill |-> "execute_script", pc |-> "session", script |-> script,
                    acquired |-> FALSE, calls |-> <<>>, ret |-> NoRet]
       IN h' = IF msg # ""
               THEN [call EXCEPT !.pc = "done", !.ret = ErrorOnly(msg)]
               ELSE call
    /\ UNCHANGED outsideH

\* session, err := s.getOrCreateSession(ctx)
ExecuteScriptSession ==
    /\ h.skill = "execute_script" /\ h.pc = "session"
    /\ \E ok \in BOOLEAN :
         h' = IF ok THEN [h EXCEPT !.pc = "run", !.acquired = TRUE]
              ELSE [h EXCEPT !.pc = "done", !.acquired = TRUE,
                             !.ret = ErrorOnly("failed to get browser session")]
    /\ UNCHANGED outsideH

\* s.playwright.ExecuteScript and the ScriptExecutionResult, returned as JSON
\* with a nil error whether the driver failed or not
ExecuteScriptRun ==
    /\ h.skill = "execute_script" /\ h.pc = "run"
    /\ \E ok \in BOOLEAN :
         h' = [h EXCEPT
                 !.calls = Append(@, [op |-> "ExecuteScript", script |-> h.script, ok |-> ok]),
                 !.pc = "done",
                 !.ret = [NoRet EXCEPT !.out = "response", !.success = ok,
                                       !.error = IF ok THEN "" ELSE "driver error"]]
    /\ UNCHANGED outsideH

\* ---- navigate_to_url

\* the url argument as url.Parse reads it: whether it parses, its scheme, and
\* what follows the scheme (a host, a path without host, nothing)
Schemes == {"", "http", "https", "ftp"}
Rests == {"", "example.test", "/path"}
Urls == {[parses |-> TRUE, scheme |-> sc, rest |-> r] : sc \in Schemes, r \in Rests}
        \cup {[parses |-> FALSE, scheme |-> "", rest |-> "ht tp://x"]}
Host(u) == IF u.rest = "example.test" THEN u.rest ELSE ""

\* validateAndNormalizeURL: the error ("" for nil) and the normalised url
validateAndNormalizeURL(u) ==
    IF u.parses /\ u.scheme = "" /\ u.rest = ""
    THEN [err |-> "URL cannot be empty", url |-> u]
    ELSE IF ~u.parses THEN [err |-> "invalid URL format", url |-> u]
    ELSE LET v == IF u.scheme = "" THEN [u EXCEPT !.scheme = "https"] ELSE u
         IN IF v.scheme \notin {"http", "https"}
            THEN [err |-> "unsupported URL scheme", url |-> u]
            ELSE IF Host(v) = "" THEN [err |-> "URL must include a valid host", url |-> u]
            ELSE [err |-> "", url |-> v]

\* the wait_until argument: absent, valid, not valid
WaitUntils == {"", "load", "networkidle", "later"}
isValidWaitCondition(wu) == wu \in {"domcontentloaded", "load", "networkidle"}

NavigateInvalid(u, waitUntil) ==
    IF u.parses /\ u.scheme = "" /\ u.rest = ""
    THEN "url parameter is required and must be a non-empty string"
    ELSE IF validateAndNormalizeURL(u).err # "" THEN "invalid URL"
    ELSE IF waitUntil # "" /\ ~isValidWaitCondition(waitUntil) THEN "invalid wait_until value"
    ELSE ""

\* NavigateToURLHandler up to its call of getOrCreateSession
NavigateCall(u, waitUntil) ==
    /\ h.pc = "idle"
    /\ LET msg == NavigateInvalid(u, waitUntil)
           call == [skill |-> "navigate_to_url", pc |-> "session",
                    url |-> validateAndNormalizeURL(u).url,
                    waitUntil |-> IF waitUntil = "" THEN "load" ELSE waitUntil,
                    calls |-> <<>>, ret |-> NoRet]
       IN h' = IF msg # ""
               THEN [call EXCEPT !.pc = "done", !.ret = ErrorOnly(msg)]
               ELSE call
    /\ UNCHANGED outsideH

\* session, err := s.getOrCreateSession(ctx)
NavigateSession ==
    /\ h.skill = "navigate_to_url" /\ h.pc = "session"
    /\ \E ok \in BOOLEAN :
         h' = IF ok THEN [h EXCEPT !.pc = "run"]
              ELSE [h EXCEPT !.pc = "done",
                             !.ret = ErrorOnly("failed to get browser session")]
    /\ UNCHANGED outsideH

\* s.playwright.NavigateToURL and the response
NavigateRun ==
    /\ h.skill = "navigate_to_url" /\ h.pc = "run"
    /\ \E ok \in BOOLEAN :
         h' = [h EXCEPT
                 !.calls = Append(@, [op |-> "NavigateToURL", url |-> h.url, ok |-> ok]),
                 !.pc = "done",
                 !.ret = IF ok
                         THEN [NoRet EXCEPT !.out = "response", !.success = TRUE]
                         ELSE ErrorOnly("navigation failed")]
    /\ UNCHANGED outsideH

\* ---- the artifact server

\* Start: refuses a running server; MkdirAll; s.httpServer = &http.Server{...};
\* s.running = true; go func() { ListenAndServe }(); return nil
Start(mkdirOk) ==
    /\ srv' = IF srv.running
              THEN [srv EXCEPT !.last = "Start", !.ret = "already running"]
              ELSE IF ~mkdirOk
              THEN [srv EXCEPT !.last = "Start", !.ret = "mkdir"]
              ELSE [srv EXCEPT !.httpServer = TRUE, !.running = TRUE, !.serve = "starting",
                               !.last = "Start", !.ret = "ok"]
    /\ UNCHANGED outsideSrv

\* the goroutine: s.httpServer.ListenAndServe() binds the port and serves, or
\* returns an error (the port is in use), which is logged
ListenAndServe(ok) ==
    /\ srv.serve = "starting"
    /\ srv' = [srv EXCEPT !.serve = IF ok THEN "listening" ELSE "failed",
                          !.last = "ListenAndServe", !.ret = IF ok THEN "ok" ELSE "listen"]
    /\ UNCHANGED outsideSrv

\* http.Server.Shutdown closes the listeners first: ListenAndServe returns
\* ErrServerClosed
AfterShutdown(serve) == IF serve \in {"starting", "listening"} THEN "closed" ELSE serve

\* Stop: nothing to do unless running with a server; s.httpServer.Shutdown(ctx),
\* whose error is returned; s.running = false; s.httpServer = nil
Stop(ok) ==
    /\ srv' = IF ~srv.running \/ ~srv.httpServer
              THEN [srv EXCEPT !.last = "Stop", !.ret = "ok"]
              ELSE IF ~ok
              THEN [srv EXCEPT !.serve = AfterShutdown(@), !.last = "Stop",
                               !.ret = "shutdown"]
              ELSE [srv EXCEPT !.serve = AfterShutdown(@), !.running = FALSE,
                               !.httpServer = FALSE, !.last = "Stop", !.ret = "ok"]
    /\ UNCHANGED outsideSrv

\* IsRunning: return s.running
IsRunning ==
    /\ srv' = [srv EXCEPT !.last = "IsRunning",
                          !.ret = IF srv.running THEN "true" ELSE "false"]
    /\ UNCHANGED outsideSrv

\* a request reaches the router only through a listening server
Serve(id) ==
    /\ srv.serve = "listening"
    /\ getArtifact(id)

\* ---- extract_data

\* an element of the extractors array: whether it is an object, and its name
\* and selector fields ("" when absent or not a string)
Extractor(object, name, selector) ==
    [object |-> object, name |-> name, selector |-> selector]
ExtractorValues == {Extractor(FALSE, "", ""), Extractor(TRUE, "", "h1"),
                    Extractor(TRUE, "title", ""), Extractor(TRUE, "title", "h1")}
MaxExtractors == 2
ExtractorLists == UNION {[1..n -> ExtractorValues] : n \in 0..MaxExtractors}

\* the format argument: absent, valid, not valid
Formats == {"", "csv", "xml"}
isValidFormat(f) == f \in {"json", "csv", "text"}

\* what ExtractDataHandler checks before it calls getOrCreateSession
ExtractInvalid(arg, format) ==
    IF ~arg.present \/ Len(arg.list) = 0
    THEN "extractors parameter is required and must be a non-empty array"
    ELSE IF format # "" /\ ~isValidFormat(format) THEN "invalid format"
    ELSE ""

\* convertExtractors: the error of the first element that is not an object or
\* lacks a name or a selector, "" when every element converts
RECURSIVE convertExtractorsFrom(_, _)
convertExtractorsFrom(extractors, i) ==
    IF i > Len(extractors) THEN ""
    ELSE IF ~extractors[i].object THEN "must be an object"
    ELSE IF extractors[i].name = "" THEN "must have a non-empty 'name' field"
    ELSE IF extractors[i].selector = "" THEN "must have a non-empty 'selector' field"
    ELSE convertExtractorsFrom(extractors, i + 1)
convertExtractors(extractors) == convertExtractorsFrom(extractors, 1)

\* the handler returns an error for its arguments; the event names the session
\* the handler holds, "none" before getOrCreateSession
RejectArgs(c) ==
    /\ ev' = [NoEv EXCEPT !.type = "resp", !.skill = "extract_data", !.kind = "invalid",
                          !.id = local[c].id]
    /\ pc' = [pc EXCEPT ![c] = "idle"]
    /\ local' = [local EXCEPT ![c] = IdleLocal]
    /\ UNCHANGED <<sessions, writer, nextGen, stamp, now, toSweep, closedHist>>
    /\ UNCHANGED ext

\* ExtractDataHandler returns at its checks of extractors and format
ExtractDataReject(c, arg, format) ==
    /\ pc[c] = "idle" /\ c \in Callers
    /\ ExtractInvalid(arg, format) # ""
    /\ RejectArgs(c)

\* ExtractDataHandler with the session it got: convertExtractors, then
\* s.playwright.ExtractData
ExtractDataRun(c, extractors) ==
    /\ pc[c] = "SK_driver"
    /\ IF convertExtractors(extractors) # ""
       THEN RejectArgs(c)
       ELSE SkillDriver(c)

\* ---- the reading of an argument map (map[string]any)

\* a value of the map: its dynamic kind and its text; Absent for a missing key
Arg(kind, val) == [kind |-> kind, val |-> val]
Absent == Arg("absent", "")
Str(v) == Arg("string", v)
Num(v) == Arg("number", v)
Bool(v) == Arg("bool", v)
List(v) == Arg("array", v)

\* what the reading of a map gives: the error returned ("" for none) and the
\* parameter it names, whether the handler panicked, and for each optional
\* parameter whether its value or its default is used
Reading(err, param, panic, used) ==
    [err |-> err, param |-> param, panic |-> panic, used |-> used]
\* v, ok := args[p].(T); ok (and a value that counts): the value, else the default
Taken(arg, kind) == IF arg.kind = kind /\ arg.val # "" THEN "value" ELSE "default"
TakenFlag(arg) == IF arg.kind = "bool" THEN "value" ELSE "default"

\* ClickElementHandler: selector, button, click_count, force, timeout
ClickArgMaps ==
    [selector : {Str("#a"), Str(""), Num("1"), Absent},
     button : {Absent, Str("left"), Str("up"), Num("2")},
     click_count : {Absent, Num("2"), Str("2")},
     force : {Absent, Bool("true"), Str("true")},
     timeout : {Absent, Num("5000"), Str("5000")}]
ReadClickArgs(a) ==
    LET used == [button |-> Taken(a.button, "string"),
                 click_count |-> Taken(a.click_count, "number"),
                 force |-> TakenFlag(a.force),
                 timeout |-> Taken(a.timeout, "number")]
    IN IF a.selector.kind # "string" \/ a.selector.val = ""
       THEN Reading("selector parameter is required and must be a non-empty string",
                    "selector", FALSE, used)
       ELSE IF a.button.kind = "string" /\ a.button.val # "" /\ ~isValidButton(a.button.val)
       THEN Reading("invalid button value", "button", FALSE, used)
       ELSE Reading("", "", FALSE, used)

\* FillFormHandler, one element of fields: selector, value, type
FieldArgMaps ==
    [selector : {Str("#a"), Str(""), Num("1")},
     value : {Str("v"), Num("1"), Absent},
     type : {Absent, Str("text"), Str("color"), Num("1"), Bool("true")}]
ReadFieldArgs(a) ==
    LET used == [type |-> IF a.type.kind = "absent" THEN "default" ELSE "value"]
    IN IF a.selector.kind # "string" \/ a.selector.val = ""
       THEN Reading("selector is required and must be a non-empty string",
                    "selector", FALSE, used)
       ELSE IF a.value.kind # "string"
       THEN Reading("value is required", "value", FALSE, used)
       ELSE IF a.type.kind \notin {"absent", "string"}
       THEN Reading("", "", TRUE, used)     \* fieldMap["type"].(string) panics
       ELSE IF a.type.kind = "string" /\
               a.type.val \notin {"text", "textarea", "password", "select",
                                  "checkbox", "radio", "file"}
       THEN Reading("invalid type", "type", FALSE, used)
       ELSE Reading("", "", FALSE, used)

\* ExecuteScriptHandler: script, args, return_value, timeout, async
ScriptArgMaps ==
    [script : {Str("return 1"), Num("1"), Absent},
     args : {Absent, List("[1]"), Str("1")},
     return_value : {Absent, Bool("false"), Str("false")},
     timeout : {Absent, Num("5000"), Str("5000")},
     async : {Absent, Bool("true"), Num("1")}]
ReadScriptArgs(a) ==
    LET used == [args |-> Taken(a.args, "array"),
                 return_value |-> TakenFlag(a.return_value),
                 timeout |-> Taken(a.timeout, "number"),
                 async |-> TakenFlag(a.async)]
    IN IF a.script.kind # "string" \/ a.script.val = ""
       THEN Reading("script parameter is required and must be a non-empty string",
                    "script", FALSE, used)
       ELSE Reading("", "", FALSE, used)

\* the kind each parameter is declared with
ExpectedKind ==
    [click_element |-> [selector |-> "string", button |-> "string",
                        click_count |-> "number", force |-> "bool", timeout |-> "number"],
     fill_form |-> [selector |-> "string", value |-> "string", type |-> "string"],
     execute_script |-> [script |-> "string", args |-> "array", return_value |-> "bool",
                         timeout |-> "number", async |-> "bool"]]

ReadArgs(skill, a) ==
    CASE skill = "click_element" -> ReadClickArgs(a)
      [] skill = "fill_form" -> ReadFieldArgs(a)
      [] skill = "execute_script" -> ReadScriptArgs(a)

\* a handler reads the argument map of a call
ReadArgMap(skill, a) ==
    /\ pv' = [skill |-> skill, args |-> a, out |-> ReadArgs(skill, a)]
    /\ UNCHANGED outsidePv

\* ---- the specifications

\* the session manager under concurrent direct callers
Next ==
    \/ Tick
    \/ \E c \in Callers :
        \/ \E id \in SessionIds : GetSession(c, id)
        \/ \E id \in SessionIds : CloseBrowserLock(c, id)
        \/ CloseBrowserClose(c)
        \/ DefaultFast(c, NoSkill)
        \/ DefaultLock(c)
        \/ DefaultCreate(c)
        \/ \E task \in TaskIds : TaskLookup(c, task, NoSkill)
        \/ TaskCreate(c)
        \/ TaskInsert(c)

Spec == Init /\ [][Next]_vars

\* one caller's task sessions and lookups, and the cleanup worker
NextSweep ==
    \/ Tick
    \/ \E c \in {"c1"} :
        \/ \E id \in SessionIds : GetSession(c, id)
        \/ \E task \in TaskIds : TaskLookup(c, task, NoSkill)
        \/ TaskCreate(c)
        \/ TaskInsert(c)
    \/ SweepCollect
    \/ SweepDone
    \/ \E id \in SessionIds : CloseBrowserLock(Sweeper, id)
    \/ CloseBrowserClose(Sweeper)

SpecSweep == Init /\ [][NextSweep]_vars

\* the creating operations and their failures
NextLaunch ==
    \/ Tick
    \/ \E c \in Callers :
        \/ LaunchBrowserCreate(c)
        \/ LaunchBrowserInsert(c)
        \/ DefaultFast(c, NoSkill)
        \/ DefaultLock(c)
        \/ DefaultCreate(c)
        \/ \E id \in SessionIds : CloseBrowserLock(c, id)
        \/ CloseBrowserClose(c)

SpecLaunch == Init /\ [][NextLaunch]_vars

\* the skill handlers on the request path
NextSkills ==
    \/ Tick
    \/ \E c \in Callers :
        \/ \E skill \in Skills :
            \/ SkillReject(c, skill)
            \/ DefaultFast(c, skill)
            \/ \E task \in TaskIds : TaskLookup(c, task, skill)
        \/ DefaultLock(c)
        \/ DefaultCreate(c)
        \/ TaskCreate(c)
        \/ TaskInsert(c)
        \/ SkillDriver(c)

SpecSkills == Init /\ [][NextSkills]_vars

\* Shutdown beside callers that create sessions
NextShutdown ==
    \/ Tick
    \/ \E c \in Callers :
        \/ DefaultFast(c, NoSkill)
        \/ DefaultLock(c)
        \/ DefaultCreate(c)
        \/ \E task \in {"A"} : TaskLookup(c, task, NoSkill)
        \/ TaskCreate(c)
        \/ TaskInsert(c)
        \/ ShutdownLock(c)
        \/ ShutdownCloseAll(c)
        \/ ShutdownStop(c)

SpecShutdown == Init /\ [][NextShutdown]_vars

\* Shutdown beside the cleanup worker and a caller's task sessions
NextWorker ==
    \/ Tick
    \/ \E c \in {"c1"} :
        \/ \E task \in TaskIds : TaskLookup(c, task, NoSkill)
        \/ TaskCreate(c)
        \/ TaskInsert(c)
        \/ ShutdownLock(c)
        \/ ShutdownCloseAll(c)
        \/ ShutdownStop(c)
    \/ WorkerTick
    \/ SweepDone
    \/ \E id \in SessionIds : CloseBrowserLock(Sweeper, id)
    \/ CloseBrowserClose(Sweeper)

SpecWorker == Init /\ [][NextWorker]_vars

\* extract_data requests on the shared session
NextExtract ==
    \/ Tick
    \/ \E c \in Callers :
        \/ \E arg \in {Array(l) : l \in ExtractorLists} \cup {Missing}, format \in Formats :
              ExtractDataReject(c, arg, format)
        \/ DefaultFast(c, "extract_data")
        \/ DefaultLock(c)
        \/ DefaultCreate(c)
        \/ \E l \in ExtractorLists \ {<<>>} : ExtractDataRun(c, l)

SpecExtract == Init /\ [][NextExtract]_vars

\* the artifact server started and stopped beside producers and requests
NextServer ==
    \/ \E mkdirOk \in BOOLEAN : Start(mkdirOk)
    \/ \E ok \in BOOLEAN : ListenAndServe(ok)
    \/ \E ok \in BOOLEAN : Stop(ok)
    \/ IsRunning
    \/ \E id \in ArtifactIds, f \in FileNames : CreateFileArtifactFromBytesWithRegistry(id, f)
    \/ \E id \in RequestIds : Serve(id)

SpecServer == Init /\ [][NextServer]_vars

\* skill calls with their driver operations in flight, and the cleanup worker
NextInFlight ==
    \/ TickInCall
    \/ \E c \in Callers :
        \/ \E skill \in {"fill_form", "navigate_to_url"} :
            \/ DefaultFast(c, skill)
            \/ TaskLookup(c, "A", skill)
        \/ DefaultLock(c)
        \/ DefaultCreate(c)
        \/ TaskCreate(c)
        \/ TaskInsert(c)
        \/ SkillDriverStart(c)
        \/ SkillDriverEnd(c)
    \/ SweepCollect
    \/ SweepDone
    \/ \E id \in SessionIds : CloseBrowserLock(Sweeper, id)
    \/ CloseBrowserClose(Sweeper)

SpecInFlight == Init /\ [][NextInFlight]_vars

\* lookups of the default session by goroutines that hold the reader lock
\* together, the session being created by GetOrCreateDefaultSession
NextReaders ==
    \/ Tick
    \/ \E c \in Callers :
        \/ DefaultFast(c, NoSkill)
        \/ NoReaders /\ DefaultLock(c)
        \/ DefaultCreate(c)
        \/ GetSessionNow(c, DefaultSessionID)
        \/ GetSessionStore(c)

SpecReaders == Init /\ [][NextReaders]_vars

\* the artifact store: producers, direct registrations, requests, lost files
NextArtifacts ==
    \/ \E e \in Entries : RegisterArtifact(e)
    \/ \E id \in ArtifactIds, f \in FileNames : CreateFileArtifactFromBytesWithRegistry(id, f)
    \/ \E id \in RequestIds : getArtifact(id)
    \/ \E id \in RequestIds : getArtifactMetadata(id)
    \/ \E p \in Paths : RemoveFile(p)

SpecArtifacts == Init /\ [][NextArtifacts]_vars


\* calls of fill_form, one after the other
NextFillForm ==
    \/ \E arg \in {Array(l) : l \in FieldLists} \cup {Missing}, submit \in BOOLEAN,
          submitSelector \in {"", "#submit"} :
            FillFormCall(arg, submit, submitSelector)
    \/ FillFormSession
    \/ FillFormField
    \/ FillFormSubmit
    \/ HandlerDone

SpecFillForm == Init /\ [][NextFillForm]_vars


\* calls of click_element, one after the other
NextClick ==
    \/ \E selector \in ClickSelectors, button \in Buttons, clickCountArg \in {0, 2},
          force \in BOOLEAN, timeoutArg \in TimeoutArgs :
            ClickCall(selector, button, clickCountArg, force, timeoutArg)
    \/ ClickSession
    \/ ClickWait
    \/ ClickClick
    \/ HandlerDone

SpecClick == Init /\ [][NextClick]_vars


\* calls of execute_script, one after the other
NextScript ==
    \/ \E script \in Scripts : ExecuteScriptCall(script)
    \/ ExecuteScriptSession
    \/ ExecuteScriptRun
    \/ HandlerDone

SpecScript == Init /\ [][NextScript]_vars


\* calls of the handlers, one after the other
NextHandlers ==
    \/ \E u \in Urls, waitUntil \in WaitUntils : NavigateCall(u, waitUntil)
    \/ NavigateSession
    \/ NavigateRun
    \/ \E script \in Scripts : ExecuteScriptCall(script)
    \/ ExecuteScriptSession
    \/ ExecuteScriptRun
    \/ \E arg \in {Array(l) : l \in FieldLists} \cup {Missing}, submit \in BOOLEAN,
          submitSelector \in {"", "#submit"} :
            FillFormCall(arg, submit, submitSelector)
    \/ FillFormSession
    \/ FillFormField
    \/ FillFormSubmit
    \/ \E selector \in ClickSelectors, button \in Buttons, clickCountArg \in {0, 2},
          force \in BOOLEAN, timeoutArg \in TimeoutArgs :
            ClickCall(selector, button, clickCountArg, force, timeoutArg)
    \/ ClickSession
    \/ ClickWait
    \/ ClickClick
    \/ HandlerDone

SpecHandlers == Init /\ [][NextHandlers]_vars


\* argument maps of any shape reaching the handlers
NextParams ==
    \/ \E a \in ClickArgMaps : ReadArgMap("click_element", a)
    \/ \E a \in FieldArgMaps : ReadArgMap("fill_form", a)
    \/ \E a \in ScriptArgMaps : ReadArgMap("execute_script", a)

SpecParams == Init /\ [][NextParams]_vars

\* ---- the properties

Lookups == {"GetSession", "GetOrCreateTaskSession", "GetOrCreateDefaultSession"}
Returned(op) == ev.type = "ret" /\ ev.op = op
Reverse(q) == [i \in 1..Len(q) |-> q[Len(q) + 1 - i]]

\* C1: no lookup or acquisition operation (GetSession, GetOrCreateTaskSession,
\* GetOrCreateDefaultSession) returns a session whose expires-at is in the past
C1_NoExpiredReturned ==
    (ev.type = "ret" /\ ev.op \in Lookups /\ ev.kind = "ok") => ~ev.retExpired

C3_TaskSessionOnly ==
    (ev.type \in {"call", "ret"} /\ ev.skill \in Skills) =>
        ev.op = "GetOrCreateTaskSession"

\* C4: once CloseBrowser(id) has returned, GetSession(id) fails with not-found
\* as long as no session has been created under id again
C4_NotFoundAfterClose ==
    (Returned("GetSession") /\ ev.afterClose) => ev.kind = "notfound"

C4_Witness ==
    Returned("GetSession") /\ ev.afterClose /\ ev.kind = "notfound" /\ ev.id = "A"

\* C5: GetSession on a stored session whose expires-at has passed fails with
\* the expired error, and when a sweep that began at t0 has completed the
\* registry holds no session that had expired at t0
C5_ExpiredThenSwept ==
    /\ (Returned("GetSession") /\ ev.wasStored /\ ev.wasExpired) => ev.kind = "expired"
    /\ ev.type = "swept" =>
         \A id \in SessionIds : Exists(id) => ExpiresAt(sessions[id]) > ev.t0

\* C6: GetSession fails with "expired" exactly when an entry is stored under
\* the identifier and has expired, and with "not-found" exactly when none is
C6_DistinctErrors ==
    Returned("GetSession") =>
        /\ ev.kind = "expired" <=> (ev.wasStored /\ ev.wasExpired)
        /\ ev.kind = "notfound" <=> ~ev.wasStored

C8_OneDefaultSession ==
    /\ [](Returned("GetOrCreateDefaultSession") /\ ev.kind = "ok" =>
            /\ ev.id = DefaultSessionID
            /\ ev.handles = Handles(sessions[DefaultSessionID]))
    /\ [][Exists(DefaultSessionID) =>
            \/ sessions'[DefaultSessionID] = NoSession
            \/ Handles(sessions'[DefaultSessionID]) = Handles(sessions[DefaultSessionID])]_vars

C8_Witness ==
    /\ Returned("GetOrCreateDefaultSession") /\ ev.kind = "ok" /\ ~ev.wasStored
    /\ \E c \in Callers : pc[c] = "GD_lock"

\* C9: when NewContext or NewPage fails in LaunchBrowser or in
\* GetOrCreateDefaultSession, the operation returns the error with no session,
\* the registry holds no entry for it, and the handles created so far have
\* been closed in reverse order of creation
C9_PartialLaunchCleanup ==
    (ev.type = "ret" /\ ev.op \in {"LaunchBrowser", "GetOrCreateDefaultSession"}
     /\ ev.kind \in {"context", "page"}) =>
        /\ ev.handles = NoHandles
        /\ ev.id \in SessionIds => ~Exists(ev.id)
        /\ \A id \in SessionIds :
             Exists(id) => Range(Handles(sessions[id])) \cap Range(ev.created) = {}
        /\ ev.closed = Reverse(ev.created)

C9_Witness ==
    /\ Returned("GetOrCreateDefaultSession") /\ ev.kind = "page"
    /\ Len(ev.created) = 2 /\ ev.closed = Reverse(ev.created)

\* C10: when CloseBrowser finds the session it returns nil and the entry is
\* gone, whether or not Context.Close() or Browser.Close() failed
C10_CloseErrorsDoNotLeak ==
    (Returned("CloseBrowser") /\ ev.wasStored) =>
        ev.kind = "ok" /\ ~Exists(ev.id)

C10_Witness ==
    /\ Returned("CloseBrowser") /\ ev.kind = "ok" /\ Cardinality(ev.closeErrs) = 2
    /\ ~Exists(ev.id)
C12_ExpiryFollowsLastUsed ==
    \A id \in SessionIds :
        Exists(id) => ExpiresAt(sessions[id]) = sessions[id].LastUsed + SessionTimeout
C14_WriteOnce ==
    \A id \in ArtifactIds :
        firstReg[id] # NoEntry => GetArtifact(id) = firstReg[id]

\* C15: a download answers not-found exactly when the id is not registered or
\* the entry's file is missing; a request, or the loss of a file, changes no
\* registry entry, and the metadata of a registered id is answered with the entry.
C15_NotFoundIffMissing ==
    /\ [](aev.op = "getArtifact" =>
            (aev.status = StatusNotFound <=>
                (~Registered(aev.id) \/ GetArtifact(aev.id).FilePath \notin disk)))
    /\ [](aev.op = "getArtifactMetadata" /\ Registered(aev.id) =>
            aev.status = StatusOK /\ aev.body = GetArtifact(aev.id))
    /\ [][aev'.op \in {"getArtifact", "getArtifactMetadata", "RemoveFile"} =>
            artifacts' = artifacts]_vars

\* a download of an entry the helper registered, after its file was removed
C15_Witness ==
    /\ aev.op = "getArtifact" /\ aev.status = StatusNotFound
    /\ Registered(aev.id) /\ aev.id \in issued
    /\ GetArtifact(aev.id).FilePath = RuntimePath(aev.id, GetArtifact(aev.id).FileName)

\* C16: when the bytes of an artifact cannot be written, the producing
\* operation returns an error and registers nothing.
C16_WriteFailureFails ==
    (aev.op = "CreateFileArtifactFromBytesWithRegistry" /\ ~aev.wrote) =>
        /\ aev.err
        /\ GetArtifact(aev.id) = aev.before

\* the driver calls of a fill_form call that are fills
Fills(calls) == {k \in 1..Len(calls) : calls[k].op = "FillForm"}
Clicks(calls) == {k \in 1..Len(calls) : calls[k].op = "ClickElement"}

\* C17: fill_form fills in the order of the fields; the first failed fill ends
\* the call with no later fill and no submit click, and with a response that
\* lists every field attempted and the error; the submit click comes only with
\* submit set, after the last fill, when every field has succeeded.
C17_FillFormOrder ==
    h.skill = "fill_form" =>
        /\ \A k \in Fills(h.calls) :
               /\ h.calls[k].index = k
               /\ h.calls[k].selector = h.fields[k]
        /\ \A k \in Fills(h.calls) :
               ~h.calls[k].ok =>
                   /\ k = Len(h.calls)
                   /\ h.pc = "done"
                   /\ h.ret.out = "response" /\ ~h.ret.success
                   /\ h.ret.error # "" /\ h.ret.err # ""
                   /\ Len(h.ret.fields) = k
                   /\ \A j \in 1..k :
                          /\ h.ret.fields[j].field_index = j
                          /\ h.ret.fields[j].success = h.calls[j].ok
        /\ \A k \in Clicks(h.calls) :
               /\ h.submit
               /\ k = Len(h.fields) + 1 /\ k = Len(h.calls)
               /\ h.calls[k].selector = h.submitSelector
               /\ \A j \in 1..Len(h.fields) : h.calls[j].op = "FillForm" /\ h.calls[j].ok

\* a call with submit set whose second field fails
C17_Witness ==
    /\ h.skill = "fill_form" /\ h.pc = "done" /\ h.submit
    /\ Len(h.fields) = 2 /\ Len(h.calls) = 2 /\ h.calls[1].ok /\ ~h.calls[2].ok

\* C18: every driver Click of click_element comes after a wait for the
\* selector to be visible, made with the call's timeout; when that wait fails
\* and force is false the call fails with "element not actionable" and makes
\* no driver Click.
C18_WaitBeforeClick ==
    h.skill = "click_element" =>
        /\ \A k \in Clicks(h.calls) :
               \E j \in 1..(k - 1) :
                   /\ h.calls[j].op = "WaitForCondition"
                   /\ h.calls[j].state = "visible"
                   /\ h.calls[j].timeout = h.timeout
                   /\ h.calls[j].selector = h.calls[k].selector
        /\ \A j \in 1..Len(h.calls) :
               (h.calls[j].op = "WaitForCondition" /\ ~h.calls[j].ok /\ ~h.force) =>
                   /\ Clicks(h.calls) = {}
                   /\ h.pc = "done"
                   /\ h.ret.err = "element not actionable" /\ ~h.ret.success

\* a call without force whose element does not become visible
C18_Witness ==
    /\ h.skill = "click_element" /\ h.pc = "done" /\ ~h.force
    /\ h.calls # <<>> /\ h.calls[1].op = "WaitForCondition" /\ ~h.calls[1].ok
    /\ h.timeout = 5000

\* a pattern with its letters lowered, and its match with letter case ignored
LowerPattern(pat) ==
    [j \in 1..Len(pat) |-> [pat[j] EXCEPT !.set = {<<t[1], Lower>> : t \in @}]]
MatchesAnyCase(pat, text) == MatchString(LowerPattern(pat), ToLower(text))
OnDenyList(script) ==
    \/ \E k \in 1..Len(dangerousPatterns) : MatchesAnyCase(dangerousPatterns[k], script.text)
    \/ script.len > MaxScriptLength

\* C19: a script that matches a pattern of the deny-list in any letter case, or
\* is longer than 50000 characters, is rejected by execute_script before a
\* session is acquired and before the driver is called.
C19_DenyListRejects ==
    (h.skill = "execute_script" /\ OnDenyList(h.script)) =>
        /\ h.pc = "done"
        /\ h.ret.err = "script security validation failed"
        /\ ~h.acquired
        /\ h.calls = <<>>

\* a handler has returned a failure: an error, or a response without success
HandlerFailed == h.pc = "done" /\ (h.ret.err # "" \/ ~h.ret.success)

\* C20: a skill call that fails, on a parameter, on the acquisition of its
\* session or on the driver, returns a response with success false and an
\* error string, never an empty response.
C20_FailureResponse ==
    HandlerFailed =>
        /\ h.ret.out = "response"
        /\ ~h.ret.success
        /\ h.ret.error # ""

\* the parameters of the last argument map that are present with a wrong kind
WrongKind ==
    {p \in DOMAIN pv.args :
        pv.args[p].kind \notin {"absent", ExpectedKind[pv.skill][p]}}

\* C21: when a parameter is present with the wrong kind the handler returns an
\* error that names a parameter of the wrong kind; it does not panic and does
\* not go on with the default in its place.
C21_WrongKindRejected ==
    (pv.skill # "none" /\ WrongKind # {}) =>
        /\ ~pv.out.panic
        /\ pv.out.err # ""
        /\ pv.out.param \in WrongKind

\* C22: a process that stands at the Close() calls of a destroy path
\* (CloseBrowser, also when the sweep runs it, and Shutdown) does not hold the
\* registry writer lock.
C22_CloseOutsideLock ==
    \A p \in Procs :
        pc[p] \in {"CB_close", "SD_close"} => writer # p

\* C23: a process that stands at the Launch, NewContext and NewPage calls of a
\* session acquisition does not hold the registry lock.
C23_LaunchOutsideLock ==
    \A c \in Callers :
        pc[c] \in {"GD_create", "GT_create"} => writer # c

\* C24: the last-used of a session is never later than the clock, a store to it
\* never lowers it, and a goroutine that stands at its store holds the writer lock.
C24_LastUsedMonotonic ==
    /\ \A id \in SessionIds : Exists(id) => sessions[id].LastUsed <= now
    /\ \A c \in Callers : pc[c] = "GS_store" => writer = c
    /\ (Returned("GetSession") /\ ev.kind = "ok") =>
           ev.prevUsed <= sessions[ev.id].LastUsed

\* C25: a successful LaunchBrowser returns an identifier the registry did not
\* hold when the session was inserted: two launches never receive the same
\* identifier and the insert never replaces a stored session
C25_FreshLaunchId ==
    (Returned("LaunchBrowser") /\ ev.kind = "ok") => ~ev.wasStored

C27_RejectedBeforeSession ==
    (ev.type = "resp" /\ ev.kind = "invalid") => ev.id = "none"

\* C28: when force is true, a click_element call whose visibility wait failed
\* still invokes the driver's ClickElement
C28_ForceSkipsFailedWait ==
    (h.skill = "click_element" /\ h.pc = "done" /\ h.force
     /\ \E i \in 1..Len(h.calls) : h.calls[i].op = "WaitForCondition" /\ ~h.calls[i].ok) =>
        \E j \in 1..Len(h.calls) : h.calls[j].op = "ClickElement"

\* C29: once a Shutdown has returned, having stopped the driver, the registry
\* holds no session: nothing was added while Shutdown ran or afterwards
C29_EmptyAfterShutdown ==
    pw = "stopped" => \A id \in SessionIds : ~Exists(id)

\* C30: when IsRunning returns true the server's ListenAndServe is under way
\* or listening: it has neither failed to listen nor been closed
C30_RunningMeansListening ==
    (srv.last = "IsRunning" /\ srv.ret = "true") => srv.serve \in {"starting", "listening"}

====
